---- MODULE Spec2Model ----
(***************************************************************************)
(* The dice game of src/dice_game.py: DiceGame (constructor, play_round,   *)
(* simulate), the replication loop of main and _print_summary.             *)
(*                                                                         *)
(* random.Random(seed) is a deterministic generator: the n-th randint of a *)
(* generator seeded with s is a fixed but unknown function of (s, n,       *)
(* die_sides).  The variable mt holds, per seed, the part of that function *)
(* revealed so far; a draw at an unrevealed position chooses any value of  *)
(* [1, die_sides] and records it.  random.Random(None) is seeded from OS   *)
(* entropy: each of its draws is a free choice.                            *)
(*                                                                         *)
(* Means are exact rationals <<numerator, denominator>> in lowest terms    *)
(* (statistics.mean computes exactly; the final float rounding is not      *)
(* modelled).  The standard deviations need a square root and are left out *)
(* of the records.                                                         *)
(*                                                                         *)
(* src/list_github_repos.py is a program of its own: list_all_repos and    *)
(* the fetch_repos calls it makes.  The remote answers a page request with *)
(* a list of 0..per_page repositories or the request fails; a repository   *)
(* is named by the page and the place it came in.                          *)
(***************************************************************************)
EXTENDS Integers, Sequences, FiniteSets, TLC

\* ------------------------------------------------------------- bounds
MaxStages == 2
MaxRounds == 3
MaxReps == 2
\* at most this many draws in one main run (stages * rounds * replications)
MaxDraws == 4
MaxDie == 2
MaxRelease == 1
MaxInitial == 2
MaxSeed == 1
MaxDrainDraws == 8
\* the remote answers with a full page for at most this many pages
MaxPages == 2

\* ------------------------------------------------------------- values
\* Optional[int]: <<>> is None, <<s>> is the integer s
None == <<>>
Some(s) == <<s>>

\* seeds a generator can be built with: base seeds plus replication offsets
SeedSpace == 0..(MaxSeed + MaxReps - 1)

\* the parsed command line (argparse accepts any int for the int options)
ArgSpace ==
    { a \in [stages : 0..MaxStages, rounds : 0..MaxRounds,
             die_sides : 1..MaxDie, release_rate : (-1)..MaxRelease,
             initial_buffer : (-1)..MaxInitial,
             seed : {None} \cup {Some(s) : s \in 0..MaxSeed},
             replications : 0..MaxReps] :
        a.stages * a.rounds * a.replications <= MaxDraws }

\* slots of DiceGame objects: 0 is a standalone run, 1..MaxReps are the
\* replications of main (replication index rep uses slot rep + 1)
GameIds == 0..MaxReps

Min(a, b) == IF a <= b THEN a ELSE b

RECURSIVE SumSeq(_)
SumSeq(s) == IF s = <<>> THEN 0 ELSE s[1] + SumSeq(Tail(s))

RECURSIVE GCD(_, _)
GCD(a, b) == IF b = 0 THEN a ELSE GCD(b, a % b)

Abs(x) == IF x < 0 THEN -x ELSE x

\* the rational n / d (d > 0) in lowest terms
Rat(n, d) == LET g == GCD(Abs(n), d) IN <<n \div g, d \div g>>

RatAdd(p, q) == Rat(p[1] * q[2] + q[1] * p[2], p[2] * q[2])

\* p / q for q > 0
RatDiv(p, q) == Rat(p[1] * q[2], p[2] * q[1])

RECURSIVE RatSum(_)
RatSum(s) == IF s = <<>> THEN <<0, 1>> ELSE RatAdd(s[1], RatSum(Tail(s)))

\* statistics.mean of a non-empty list of ints
Mean(s) == Rat(SumSeq(s), Len(s))

\* statistics.mean of a non-empty list of exact means
MeanRat(s) == LET t == RatSum(s) IN Rat(t[1], t[2] * Len(s))

\* ------------------------------------------------------------- play_round
\* processed = min(available, roll)
ProcessedNoMin(available, roll) == roll

Processed(available, roll) == Min(available, roll)

BufferAfterKeepsAll(available, processed) == available

BufferAfter(available, processed) == available - processed

StarvedOrEqual(available, roll) == available <= roll

Starved(available, roll) == available < roll

BlockedOrEmpty(buffer_after) == buffer_after >= 0

BlockedAboveOne(buffer_after) == buffer_after > 1

Blocked(buffer_after) == buffer_after > 0

\* self.buffers[0] += self.release_rate
ReleaseTwice(buffers, release_rate) ==
    [buffers EXCEPT ![1] = @ + release_rate + release_rate]

Release(buffers, release_rate) == [buffers EXCEPT ![1] = @ + release_rate]

StageOutcomeOneBased(index, roll, available) ==
    LET processed == Processed(available, roll)
        buffer_after == BufferAfter(available, processed)
    IN [stage |-> index + 1, roll |-> roll, available |-> available,
        processed |-> processed, buffer_after |-> buffer_after,
        starved |-> Starved(available, roll),
        blocked |-> Blocked(buffer_after)]

StageOutcome(index, roll, available) ==
    LET processed == Processed(available, roll)
        buffer_after == BufferAfter(available, processed)
    IN [stage |-> index, roll |-> roll, available |-> available,
        processed |-> processed, buffer_after |-> buffer_after,
        starved |-> Starved(available, roll),
        blocked |-> Blocked(buffer_after)]

\* the for loop of play_round from stage index on (0-based index; sequences
\* are 1-based): st = [buffers, incoming, stage_outcomes]
RECURSIVE StageLoop(_, _, _)
StageLoop(index, st, rolls) ==
    IF index >= Len(st.buffers) THEN st
    ELSE LET out == StageOutcome(index, rolls[index + 1],
                                 st.buffers[index + 1] + st.incoming)
         IN StageLoop(index + 1,
                [buffers |-> [st.buffers EXCEPT ![index + 1] = out.buffer_after],
                 incoming |-> out.processed,
                 stage_outcomes |-> Append(st.stage_outcomes, out)],
                rolls)

ThroughputOfFirst(st) == st.stage_outcomes[1].processed

Throughput(st) == st.incoming

Wip(st) == SumSeq(st.buffers)

\* play_round on a non-empty buffer list with the rolls the generator gives:
\* the buffers after the round and the RoundOutcome
PlayRoundOn(buffers, release_rate, rolls, round_index) ==
    LET st == StageLoop(0, [buffers |-> Release(buffers, release_rate),
                            incoming |-> 0, stage_outcomes |-> <<>>], rolls)
    IN [buffers |-> st.buffers,
        outcome |-> [round_index |-> round_index,
                     throughput |-> Throughput(st),
                     wip |-> Wip(st),
                     stage_outcomes |-> st.stage_outcomes]]

\* ------------------------------------------------------------- DiceGame
\* a slot before any constructor call
NoGame ==
    [pc |-> "none", stages |-> 0, die_sides |-> 0, release_rate |-> 0,
     buffers |-> <<>>, rng |-> [seed |-> None, pos |-> 0], rounds |-> 0,
     history |-> <<>>, summary |-> <<>>]

InvalidCtorNoReleaseCheck(stages, die_sides, release_rate, initial_buffer) ==
    stages < 1 \/ die_sides < 2 \/ initial_buffer < 0

InvalidCtor(stages, die_sides, release_rate, initial_buffer) ==
    stages < 1 \/ die_sides < 2 \/ release_rate < 0 \/ initial_buffer < 0

\* [initial_buffer for _ in range(stages)]
InitialBuffers(stages, initial_buffer) == [i \in 1..stages |-> initial_buffer]

\* random.Random(seed), no draw taken yet
NewRng(seed) == [seed |-> seed, pos |-> 0]

\* DiceGame(stages, die_sides, release_rate, initial_buffer, seed): the new
\* object, or pc = "ctor_raised" (ValueError, no object)
DiceGameInit(stages, die_sides, release_rate, initial_buffer, seed) ==
    IF InvalidCtor(stages, die_sides, release_rate, initial_buffer)
    THEN [NoGame EXCEPT !.pc = "ctor_raised"]
    ELSE [NoGame EXCEPT !.pc = "constructed", !.stages = stages,
                        !.die_sides = die_sides,
                        !.release_rate = release_rate,
                        !.buffers = InitialBuffers(stages, initial_buffer),
                        !.rng = NewRng(seed)]

InvalidRounds(rounds) == rounds < 1

\* entry of simulate(rounds): ValueError before the loop, or the loop begins
SimulateEnter(game, rounds) ==
    IF InvalidRounds(rounds)
    THEN [game EXCEPT !.pc = "sim_raised", !.rounds = rounds]
    ELSE [game EXCEPT !.pc = "simulating", !.rounds = rounds]

\* number of rounds of the history in which stage s (0-based) has the flag
CountBlockedOnly(history, s, flag) ==
    Cardinality({r \in 1..Len(history) :
                    history[r].stage_outcomes[s + 1].blocked})

Count(history, s, flag) ==
    Cardinality({r \in 1..Len(history) :
                    IF flag = "starved"
                    THEN history[r].stage_outcomes[s + 1].starved
                    ELSE history[r].stage_outcomes[s + 1].blocked})

\* the aggregation of simulate over the finished history
Summarize(history, stages, rounds) ==
    LET throughput_series == [r \in 1..Len(history) |-> history[r].throughput]
        wip_series == [r \in 1..Len(history) |-> history[r].wip]
    IN [rounds |-> history,
        avg_throughput |-> Mean(throughput_series),
        avg_wip |-> Mean(wip_series),
        total_throughput |-> SumSeq(throughput_series),
        stage_starved_ratio |->
            [s \in 1..stages |-> Rat(Count(history, s - 1, "starved"), rounds)],
        stage_blocked_ratio |->
            [s \in 1..stages |-> Rat(Count(history, s - 1, "blocked"), rounds)]]

\* ------------------------------------------------------------- main
\* seed = args.seed + rep if args.seed is not None else None
SeedForNoOffset(seed, rep) == seed

SeedFor(seed, rep) == IF seed = None THEN None ELSE Some(seed[1] + rep)

\* overall_avg_throughput > 0
HasThroughputOrZero(overall_avg_throughput) == overall_avg_throughput[1] >= 0

HasThroughput(overall_avg_throughput) == overall_avg_throughput[1] > 0

\* x / y of two numbers: float division raises on a zero divisor
Divide(p, q) ==
    IF q[1] = 0 THEN [err |-> "ZeroDivisionError", value |-> <<>>]
    ELSE [err |-> "", value |-> <<RatDiv(p, q)>>]

\* _print_summary(summaries): the figures it prints, or the error it dies of.
\* cycle_time is <<>> for float("nan") / "undefined", <<q>> for the quotient q.
PrintSummary(sums) ==
    IF Len(sums) = 0
    THEN [err |-> "IndexError", report |-> <<>>]
    ELSE LET overall_avg_throughput ==
                 MeanRat([k \in 1..Len(sums) |-> sums[k].avg_throughput])
             overall_avg_wip ==
                 MeanRat([k \in 1..Len(sums) |-> sums[k].avg_wip])
             overall_total ==
                 Mean([k \in 1..Len(sums) |-> sums[k].total_throughput])
             cycle_time ==
                 IF HasThroughput(overall_avg_throughput)
                 THEN Divide(overall_avg_wip, overall_avg_throughput)
                 ELSE [err |-> "", value |-> <<>>]
             stage_count == Len(sums[1].stage_starved_ratio)
         IN IF cycle_time.err # ""
            THEN [err |-> cycle_time.err, report |-> <<>>]
            ELSE [err |-> "", report |-> <<
                  [reps |-> Len(sums), rounds |-> Len(sums[1].rounds),
                   avg_throughput |-> overall_avg_throughput,
                   avg_wip |-> overall_avg_wip,
                   cycle_time |-> cycle_time.value,
                   total |-> overall_total,
                   starved |-> [s \in 1..stage_count |->
                       MeanRat([k \in 1..Len(sums) |-> sums[k].stage_starved_ratio[s]])],
                   blocked |-> [s \in 1..stage_count |->
                       MeanRat([k \in 1..Len(sums) |-> sums[k].stage_blocked_ratio[s]])]] >>]

\* ------------------------------------------------------------- list_github_repos
\* fetch_repos' default per_page, which list_all_repos leaves as it is
per_page == 100

\* the page length below which list_all_repos stops: len(repos) < 100
FullPage == 100

\* list_github_repos.py is not running
NoLister ==
    [pc |-> "off", page |-> 0, all_repos |-> <<>>, requested |-> <<>>,
     fetched |-> <<>>, result |-> None, status |-> None]

\* the list the remote answers page `page` with when it holds n repositories
Page(page, n) == [i \in 1..n |-> <<page, i>>]

\* if not repos
Empty(repos) == Len(repos) = 0

ShortOrFull(repos) == Len(repos) <= FullPage

Short(repos) == Len(repos) < FullPage

\* all_repos.extend(repos)
Extend(all_repos, repos) == all_repos \o repos

\* ------------------------------------------------------------- state
VARIABLES
    args,       \* the parsed command line
    games,      \* GameIds -> the DiceGame object of the slot and its simulate call
    mt,         \* seed -> the draws of random.Random(seed) revealed so far
    pc,         \* main: "run", "raised" (uncaught exception), "done"; "free" when
                \* the runs are driven by a caller other than main's loop; "off"
                \* when dice_game.py is not running
    rep,        \* main's loop variable
    summaries,  \* main's list of SimulationSummary
    report,     \* <<>> or <<the figures _print_summary printed>>
    err,        \* the exception main died of
    lister      \* the run of list_github_repos.py: list_all_repos' locals, the
                \* pages asked for and received, the value returned, the exit status

vars == <<args, games, mt, pc, rep, summaries, report, err, lister>>

\* the rolls self.rng.randint(1, die_sides) returns for the stages of one
\* round of game g, and what they reveal of the generator
DrawsFromGlobal(g, rolls) ==
    /\ rolls \in [1..games[g].stages -> 1..games[g].die_sides]
    /\ mt' = mt

Draws(g, rolls) ==
    LET gm == games[g]
        pos == gm.rng.pos
    IN /\ rolls \in [1..gm.stages -> 1..gm.die_sides]
       /\ IF gm.rng.seed = None
          THEN mt' = mt
          ELSE LET s == gm.rng.seed[1]
                   known == mt[s]
               IN /\ \A i \in 1..gm.stages :
                        pos + i <= Len(known) => rolls[i] = known[pos + i]
                  /\ mt' = [mt EXCEPT ![s] =
                               IF pos + gm.stages <= Len(known) THEN known
                               ELSE SubSeq(known, 1, pos) \o rolls]

\* the stores of one play_round call on game g: self.buffers, the rng's
\* position, and simulate's history.append
AfterRoundSharedBuffers(gs, g, res) ==
    [h \in DOMAIN gs |->
        IF h = g
        THEN [gs[h] EXCEPT !.buffers = res.buffers,
                           !.history = Append(@, res.outcome),
                           !.rng.pos = @ + Len(res.buffers)]
        ELSE IF Len(gs[h].buffers) = Len(res.buffers)
             THEN [gs[h] EXCEPT !.buffers = res.buffers]
             ELSE gs[h]]

AfterRound(gs, g, res) ==
    [gs EXCEPT ![g] = [@ EXCEPT !.buffers = res.buffers,
                                !.history = Append(@, res.outcome),
                                !.rng.pos = @ + Len(res.buffers)]]

\* one iteration of simulate's loop: history.append(self.play_round(i + 1))
PlayRound(g) ==
    /\ games[g].pc = "simulating"
    /\ Len(games[g].history) < games[g].rounds
    /\ \E rolls \in [1..games[g].stages -> 1..games[g].die_sides] :
          /\ Draws(g, rolls)
          /\ games' = AfterRound(games, g,
                 PlayRoundOn(games[g].buffers, games[g].release_rate, rolls,
                             Len(games[g].history) + 1))

\* simulate after its loop: the summary it returns
Returned(game) ==
    [game EXCEPT !.pc = "returned",
                 !.summary = <<Summarize(game.history, game.stages, game.rounds)>>]

SimulateDone(g) ==
    /\ games[g].pc = "simulating"
    /\ Len(games[g].history) = games[g].rounds

Init ==
    /\ args \in ArgSpace
    /\ games = [g \in GameIds |-> NoGame]
    /\ mt = [s \in SeedSpace |-> <<>>]
    /\ pc = "run"
    /\ rep = 0
    /\ summaries = <<>>
    /\ report = <<>>
    /\ err = ""
    /\ lister = NoLister

\* game = DiceGame(...) in main's loop; a ValueError ends the program
MainConstruct ==
    /\ pc = "run"
    /\ rep < args.replications
    /\ games[rep + 1].pc = "none"
    /\ LET gm == DiceGameInit(args.stages, args.die_sides, args.release_rate,
                              args.initial_buffer, SeedFor(args.seed, rep))
       IN /\ games' = [games EXCEPT ![rep + 1] = gm]
          /\ pc' = IF gm.pc = "ctor_raised" THEN "raised" ELSE pc
          /\ err' = IF gm.pc = "ctor_raised" THEN "ValueError" ELSE err
    /\ UNCHANGED <<lister, args, mt, rep, summaries, report>>

\* game.simulate(args.rounds): the entry check
MainSimulate ==
    /\ pc = "run"
    /\ rep < args.replications
    /\ games[rep + 1].pc = "constructed"
    /\ LET gm == SimulateEnter(games[rep + 1], args.rounds)
       IN /\ games' = [games EXCEPT ![rep + 1] = gm]
          /\ pc' = IF gm.pc = "sim_raised" THEN "raised" ELSE pc
          /\ err' = IF gm.pc = "sim_raised" THEN "ValueError" ELSE err
    /\ UNCHANGED <<lister, args, mt, rep, summaries, report>>

MainPlayRound ==
    /\ pc = "run"
    /\ rep < args.replications
    /\ PlayRound(rep + 1)
    /\ UNCHANGED <<lister, args, pc, rep, summaries, report, err>>

\* simulate returns; summaries.append(summary); next rep
MainAppend ==
    /\ pc = "run"
    /\ rep < args.replications
    /\ SimulateDone(rep + 1)
    /\ LET gm == Returned(games[rep + 1])
       IN /\ games' = [games EXCEPT ![rep + 1] = gm]
          /\ summaries' = Append(summaries, gm.summary[1])
    /\ rep' = rep + 1
    /\ UNCHANGED <<lister, args, mt, pc, report, err>>

\* the loop is over: _print_summary(summaries)
MainPrintSummary ==
    /\ pc = "run"
    /\ rep >= args.replications
    /\ LET res == PrintSummary(summaries)
       IN /\ err' = res.err
          /\ report' = res.report
          /\ pc' = IF res.err = "" THEN "done" ELSE "raised"
    /\ UNCHANGED <<lister, args, games, mt, rep, summaries>>

Next ==
    \/ MainConstruct
    \/ MainSimulate
    \/ MainPlayRound
    \/ MainAppend
    \/ MainPrintSummary

Spec == Init /\ [][Next]_vars

\* ------------------------------------------------------------- a second run
\* A caller other than main constructs one more DiceGame (slot 0) with the
\* same options and the seed of one of main's replications, and runs
\* simulate(args.rounds) on it, at any time relative to main's replications.
StandaloneSeeds ==
    IF args.seed = None THEN {None}
    ELSE { Some(args.seed[1] + k) : k \in 0..(args.replications - 1) }

StandaloneConstruct ==
    /\ games[0].pc = "none"
    /\ \E seed \in StandaloneSeeds :
          games' = [games EXCEPT ![0] =
                       DiceGameInit(args.stages, args.die_sides, args.release_rate,
                                    args.initial_buffer, seed)]
    /\ UNCHANGED <<lister, args, mt, pc, rep, summaries, report, err>>

StandaloneSimulate ==
    /\ games[0].pc = "constructed"
    /\ games' = [games EXCEPT ![0] = SimulateEnter(@, args.rounds)]
    /\ UNCHANGED <<lister, args, mt, pc, rep, summaries, report, err>>

StandalonePlayRound ==
    /\ PlayRound(0)
    /\ UNCHANGED <<lister, args, pc, rep, summaries, report, err>>

StandaloneReturn ==
    /\ SimulateDone(0)
    /\ games' = [games EXCEPT ![0] = Returned(@)]
    /\ UNCHANGED <<lister, args, mt, pc, rep, summaries, report, err>>

\* main and the second run are run side by side with a base seed given
PairArgSpace == { a \in ArgSpace : a.seed # None }

InitPair == Init /\ args \in PairArgSpace

NextPair ==
    \/ MainConstruct
    \/ MainSimulate
    \/ MainPlayRound
    \/ MainAppend
    \/ MainPrintSummary
    \/ StandaloneConstruct
    \/ StandaloneSimulate
    \/ StandalonePlayRound
    \/ StandaloneReturn

SpecPair == InitPair /\ [][NextPair]_vars

\* ------------------------------------------------------------- any order
\* The replications of main's loop body (construct with the seed of the
\* index, simulate, keep the summary) run in any order and interleaved round
\* by round, as separate workers would run them; the summaries are collected
\* by index and printed when all have returned.
InitFree ==
    /\ args \in ArgSpace
    /\ games = [g \in GameIds |-> NoGame]
    /\ mt = [s \in SeedSpace |-> <<>>]
    /\ pc = "free"
    /\ rep = 0
    /\ summaries = <<>>
    /\ report = <<>>
    /\ err = ""
    /\ lister = NoLister

FreeConstruct(g) ==
    /\ pc = "free"
    /\ g <= args.replications
    /\ games[g].pc = "none"
    /\ games' = [games EXCEPT ![g] =
                    DiceGameInit(args.stages, args.die_sides, args.release_rate,
                                 args.initial_buffer, SeedFor(args.seed, g - 1))]
    /\ UNCHANGED <<lister, args, mt, pc, rep, summaries, report, err>>

FreeSimulate(g) ==
    /\ pc = "free"
    /\ games[g].pc = "constructed"
    /\ games' = [games EXCEPT ![g] = SimulateEnter(@, args.rounds)]
    /\ UNCHANGED <<lister, args, mt, pc, rep, summaries, report, err>>

FreePlayRound(g) ==
    /\ pc = "free"
    /\ PlayRound(g)
    /\ UNCHANGED <<lister, args, pc, rep, summaries, report, err>>

FreeReturn(g) ==
    /\ pc = "free"
    /\ SimulateDone(g)
    /\ games' = [games EXCEPT ![g] = Returned(@)]
    /\ UNCHANGED <<lister, args, mt, pc, rep, summaries, report, err>>

FreePrintSummary ==
    /\ pc = "free"
    /\ \A g \in 1..args.replications : games[g].pc = "returned"
    /\ LET sums == [k \in 1..args.replications |-> games[k].summary[1]]
           res == PrintSummary(sums)
       IN /\ summaries' = sums
          /\ err' = res.err
          /\ report' = res.report
          /\ pc' = IF res.err = "" THEN "done" ELSE "raised"
    /\ rep' = args.replications
    /\ UNCHANGED <<lister, args, games, mt>>

NextFree ==
    \/ \E g \in 1..MaxReps : FreeConstruct(g)
    \/ \E g \in 1..MaxReps : FreeSimulate(g)
    \/ \E g \in 1..MaxReps : FreePlayRound(g)
    \/ \E g \in 1..MaxReps : FreeReturn(g)
    \/ FreePrintSummary

SpecFree == InitFree /\ [][NextFree]_vars

\* ------------------------------------------------------------- full buffers
\* main with one unseeded replication and initial buffers up to one more
\* than the longest run can draw (rounds * die_sides), and a release rate up
\* to the largest roll
SatArgSpace ==
    { a \in [stages : 1..MaxStages, rounds : 1..MaxRounds,
             die_sides : 2..MaxDie, release_rate : 0..MaxDie,
             initial_buffer : 0..(MaxRounds * MaxDie + 1),
             seed : {None}, replications : {1}] :
        a.stages * a.rounds <= MaxDraws }

InitSat ==
    /\ args \in SatArgSpace
    /\ games = [g \in GameIds |-> NoGame]
    /\ mt = [s \in SeedSpace |-> <<>>]
    /\ pc = "run"
    /\ rep = 0
    /\ summaries = <<>>
    /\ report = <<>>
    /\ err = ""
    /\ lister = NoLister

SpecSat == InitSat /\ [][Next]_vars

\* ------------------------------------------------------------- a draining line
\* main with --release-rate 0 and more rounds than the line needs to empty
DrainArgSpace ==
    { a \in [stages : 1..MaxStages, rounds : 1..MaxDrainDraws,
             die_sides : 2..MaxDie, release_rate : {0},
             initial_buffer : 0..MaxInitial,
             seed : {None}, replications : {1}] :
        a.stages * a.rounds <= MaxDrainDraws }

InitDrain ==
    /\ args \in DrainArgSpace
    /\ games = [g \in GameIds |-> NoGame]
    /\ mt = [s \in SeedSpace |-> <<>>]
    /\ pc = "run"
    /\ rep = 0
    /\ summaries = <<>>
    /\ report = <<>>
    /\ err = ""
    /\ lister = NoLister

SpecDrain == InitDrain /\ [][Next]_vars

\* ------------------------------------------------------------- listing repositories
\* the command line of dice_game.py when no option is given
DefaultArgs ==
    [stages |-> 5, rounds |-> 20, die_sides |-> 6, release_rate |-> 4,
     initial_buffer |-> 3, seed |-> None, replications |-> 1]

\* list_github_repos.py is about to call list_all_repos; dice_game.py is
\* not running
InitRepos ==
    /\ args = DefaultArgs
    /\ games = [g \in GameIds |-> NoGame]
    /\ mt = [s \in SeedSpace |-> <<>>]
    /\ pc = "off"
    /\ rep = 0
    /\ summaries = <<>>
    /\ report = <<>>
    /\ err = ""
    /\ lister = [NoLister EXCEPT !.pc = "called"]

\* all_repos = []; page = 1
ListAllRepos ==
    /\ lister.pc = "called"
    /\ lister' = [lister EXCEPT !.pc = "loop", !.all_repos = <<>>, !.page = 1]
    /\ UNCHANGED <<args, games, mt, pc, rep, summaries, report, err>>

\* one pass of the while loop in which fetch_repos returns a list of n
\* repositories: break and return on an empty list, else extend, count the
\* page, and break and return on a short list
FetchRepos(n) ==
    /\ lister.pc = "loop"
    /\ n = per_page => lister.page <= MaxPages
    /\ LET repos == Page(lister.page, n)
           asked == [lister EXCEPT !.requested = Append(@, lister.page),
                                   !.fetched = Append(@, repos)]
       IN lister' =
             IF Empty(repos)
             THEN [asked EXCEPT !.pc = "returned",
                                !.result = Some(lister.all_repos)]
             ELSE LET all_repos == Extend(lister.all_repos, repos)
                      next == [asked EXCEPT !.all_repos = all_repos,
                                            !.page = @ + 1]
                  IN IF Short(repos)
                     THEN [next EXCEPT !.pc = "returned",
                                       !.result = Some(all_repos)]
                     ELSE next
    /\ UNCHANGED <<args, games, mt, pc, rep, summaries, report, err>>

\* one pass of the while loop in which the request fails: fetch_repos prints
\* the error and calls sys.exit(1)
FetchFails ==
    /\ lister.pc = "loop"
    /\ lister' = [lister EXCEPT !.requested = Append(@, lister.page),
                                !.pc = "exited", !.status = Some(1)]
    /\ UNCHANGED <<args, games, mt, pc, rep, summaries, report, err>>

NextRepos ==
    \/ ListAllRepos
    \/ \E n \in 0..per_page : FetchRepos(n)
    \/ FetchFails

SpecRepos == InitRepos /\ [][NextRepos]_vars

\* ------------------------------------------------------------- properties
\* every StageOutcome recorded so far: <<game, round, stage>> (1-based)
Recorded ==
    { x \in GameIds \X (1..MaxRounds) \X (1..MaxStages) :
        /\ x[2] <= Len(games[x[1]].history)
        /\ x[3] <= Len(games[x[1]].history[x[2]].stage_outcomes) }

Outcome(x) == games[x[1]].history[x[2]].stage_outcomes[x[3]]

\* the buffer of stage x[3] at the end of the round before x[2]
BufferBefore(x) ==
    IF x[2] = 1 THEN args.initial_buffer
    ELSE games[x[1]].history[x[2] - 1].stage_outcomes[x[3]].buffer_after

\* C1: every recorded StageOutcome has 0 <= processed <= available,
\* processed = min(available, roll) and buffer_after = available - processed
\* >= 0, and no stage buffer of any game is negative.
C1_StageBounds ==
    /\ \A x \in Recorded :
          LET o == Outcome(x)
          IN /\ 0 <= o.processed
             /\ o.processed <= o.available
             /\ o.processed = (IF o.available <= o.roll THEN o.available ELSE o.roll)
             /\ o.buffer_after = o.available - o.processed
             /\ o.buffer_after >= 0
    /\ \A g \in GameIds : \A i \in 1..Len(games[g].buffers) :
          games[g].buffers[i] >= 0

\* a history holding a stage limited by its roll and one limited by its input
C1_Witness ==
    /\ \E x \in Recorded : Outcome(x).available > Outcome(x).roll
    /\ \E x \in Recorded : Outcome(x).available < Outcome(x).roll
                            /\ Outcome(x).available > 0

\* C2: stage 0's available is its buffer at the end of the previous round
\* (initial_buffer in round 1) plus release_rate, once; stage i >= 1 has its
\* previous buffer plus stage i-1's processed of the same round; between
\* rounds buffers[i] is the last round's buffer_after of stage i.
C2_ReleaseAndHandOff ==
    /\ \A x \in Recorded :
          Outcome(x).available =
              BufferBefore(x) +
              (IF x[3] = 1 THEN games[x[1]].release_rate
               ELSE Outcome(<<x[1], x[2], x[3] - 1>>).processed)
    /\ \A g \in GameIds :
          LET h == games[g].history
          IN Len(h) > 0 =>
                \A i \in 1..Len(games[g].buffers) :
                    games[g].buffers[i] = h[Len(h)].stage_outcomes[i].buffer_after

\* a second round of a two-stage line with a positive release in which the
\* second stage receives material from the first
C2_Witness ==
    \E x \in Recorded :
        /\ x[2] = 2 /\ x[3] = 2
        /\ games[x[1]].release_rate > 0
        /\ Outcome(<<x[1], x[2], 1>>).processed > 0
        /\ BufferBefore(x) > 0

\* C3: in every recorded StageOutcome starved = (available < roll) and
\* blocked = (buffer_after > 0).
C3_Flags ==
    \A x \in Recorded :
        LET o == Outcome(x)
        IN /\ o.starved = (o.available < o.roll)
           /\ o.blocked = (o.buffer_after > 0)

\* starved, blocked and neither (available = roll) all occur
C3_Witness ==
    /\ \E x \in Recorded : Outcome(x).starved /\ ~Outcome(x).blocked
    /\ \E x \in Recorded : Outcome(x).blocked /\ ~Outcome(x).starved
    /\ \E x \in Recorded : Outcome(x).available = Outcome(x).roll
                            /\ ~Outcome(x).starved /\ ~Outcome(x).blocked

\* every RoundOutcome recorded so far: <<game, round>>
RecordedRounds ==
    { y \in GameIds \X (1..MaxRounds) : y[2] <= Len(games[y[1]].history) }

\* C4: a round's throughput is the processed of its last StageOutcome and
\* its wip is the sum of its buffer_after values, which for the latest round
\* is the sum of the buffers as they stand.
C4_ThroughputAndWip ==
    \A y \in RecordedRounds :
        LET ro == games[y[1]].history[y[2]]
            so == ro.stage_outcomes
        IN /\ ro.throughput = so[Len(so)].processed
           /\ ro.wip = SumSeq([i \in 1..Len(so) |-> so[i].buffer_after])
           /\ y[2] = Len(games[y[1]].history) => ro.wip = SumSeq(games[y[1]].buffers)

\* a two-stage round with output, leftover material, and a first stage that
\* processed another amount than the last
C4_Witness ==
    \E y \in RecordedRounds :
        LET ro == games[y[1]].history[y[2]]
        IN /\ Len(ro.stage_outcomes) = 2
           /\ ro.throughput > 0
           /\ ro.wip > 0
           /\ ro.stage_outcomes[1].processed # ro.stage_outcomes[2].processed

\* C8: a constructor call with stages < 1, die_sides < 2, release_rate < 0 or
\* initial_buffer < 0 raises ValueError and leaves no object, draw or round;
\* simulate(rounds) with rounds < 1 raises ValueError with no draw, no
\* RoundOutcome and the buffers as constructed; every other configuration is
\* accepted by both.
C8_InvalidConfigurationRejected ==
    /\ \A g \in GameIds :
          LET gm == games[g]
          IN /\ gm.pc # "none" =>
                   ((args.stages < 1 \/ args.die_sides < 2 \/ args.release_rate < 0
                        \/ args.initial_buffer < 0)
                    <=> gm.pc = "ctor_raised")
             /\ gm.pc = "ctor_raised" =>
                   /\ gm.buffers = <<>> /\ gm.history = <<>> /\ gm.summary = <<>>
                   /\ gm.rng.pos = 0
             /\ gm.pc \in {"sim_raised", "simulating", "returned"} =>
                   (args.rounds < 1 <=> gm.pc = "sim_raised")
             /\ gm.pc = "sim_raised" =>
                   /\ gm.history = <<>> /\ gm.summary = <<>> /\ gm.rng.pos = 0
                   /\ gm.buffers = [i \in 1..args.stages |-> args.initial_buffer]
    /\ err = "ValueError" =>
          /\ pc = "raised"
          /\ \A g \in GameIds : games[g].history = <<>> /\ games[g].rng.pos = 0
          /\ \A s \in SeedSpace : mt[s] = <<>>
          /\ summaries = <<>> /\ report = <<>>
          /\ \E g \in GameIds : games[g].pc \in {"ctor_raised", "sim_raised"}
    /\ (\E g \in GameIds : games[g].pc \in {"ctor_raised", "sim_raised"})
          => (pc = "free" \/ err = "ValueError")

\* two replications were asked for with a negative release rate and otherwise
\* valid options: the first constructor call raised and nothing else exists
C8_Witness ==
    /\ args.replications = 2 /\ args.release_rate < 0
    /\ args.stages >= 1 /\ args.die_sides >= 2 /\ args.initial_buffer >= 0
    /\ args.rounds >= 1
    /\ games[1].pc = "ctor_raised" /\ games[2].pc = "none"
    /\ err = "ValueError"

\* C9 (as claimed): with replications < 1 main ends with the configuration
\* error (ValueError), no game constructed and no aggregation reached.
C9_ReplicationsRejected ==
    (args.replications < 1 /\ pc # "run") =>
        /\ pc = "raised"
        /\ err = "ValueError"

\* C10: the printed cycle time is the "undefined" sentinel exactly when every
\* round of every replication has throughput 0 (the overall mean throughput
\* is 0), and then nothing is raised; otherwise it is overall mean WIP over
\* overall mean throughput, which is total WIP over total throughput.
AllRounds == { y \in (1..Len(summaries)) \X (1..MaxRounds) :
                 y[2] <= Len(summaries[y[1]].rounds) }

RECURSIVE SumOver(_, _)
SumOver(S, field) ==
    IF S = {} THEN 0
    ELSE LET y == CHOOSE z \in S : TRUE
             r == summaries[y[1]].rounds[y[2]]
         IN (IF field = "wip" THEN r.wip ELSE r.throughput)
            + SumOver(S \ {y}, field)

C10_CycleTimeSentinel ==
    (pc \in {"done", "raised"} /\ Len(summaries) >= 1) =>
        LET zero == \A y \in AllRounds :
                        summaries[y[1]].rounds[y[2]].throughput = 0
        IN /\ pc = "done" /\ err = "" /\ report # <<>>
           /\ report[1].cycle_time = <<>> <=> zero
           /\ report[1].avg_throughput[1] = 0 <=> zero
           /\ ~zero =>
                 /\ report[1].cycle_time[1][1] * report[1].avg_throughput[1]
                        * report[1].avg_wip[2]
                    = report[1].cycle_time[1][2] * report[1].avg_wip[1]
                        * report[1].avg_throughput[2]
                 /\ report[1].cycle_time[1][1] * SumOver(AllRounds, "throughput")
                    = report[1].cycle_time[1][2] * SumOver(AllRounds, "wip")

\* a finished run of two replications of two rounds without any output: the
\* sentinel is printed
C10_Witness ==
    /\ pc = "done" /\ Len(summaries) = 2
    /\ Len(summaries[1].rounds) = 2
    /\ report[1].cycle_time = <<>>
    /\ report[1].avg_throughput = <<0, 1>>

\* a finished run with output: a quotient is printed
C10_WitnessDefined ==
    /\ pc = "done" /\ Len(summaries) = 2
    /\ report[1].cycle_time # <<>>
    /\ report[1].cycle_time[1] # <<0, 1>>

\* a DiceGame object exists in slot g
Constructed(g) == games[g].pc \in {"constructed", "simulating", "sim_raised", "returned"}

\* C5: two runs constructed with the same stages, die_sides, release_rate,
\* initial_buffer and the same explicit seed agree on every round both have
\* played, and once both have returned from simulate with the same number of
\* rounds their histories and summaries are identical.
C5_Determinism ==
    \A g, h \in GameIds :
        (/\ g # h /\ Constructed(g) /\ Constructed(h)
         /\ games[g].rng.seed # None
         /\ games[g].rng.seed = games[h].rng.seed
         /\ games[g].stages = games[h].stages
         /\ games[g].die_sides = games[h].die_sides
         /\ games[g].release_rate = games[h].release_rate)
        => /\ \A r \in 1..MaxRounds :
                 (r <= Len(games[g].history) /\ r <= Len(games[h].history))
                 => games[g].history[r] = games[h].history[r]
           /\ (/\ games[g].pc = "returned" /\ games[h].pc = "returned"
               /\ games[g].rounds = games[h].rounds)
              => /\ games[g].history = games[h].history
                 /\ games[g].summary = games[h].summary

\* two runs with the same seed have returned after two draws or more, and the
\* draws were not all the same
C5_Witness ==
    \E g \in GameIds \ {0} :
        /\ games[0].pc = "returned" /\ games[g].pc = "returned"
        /\ games[0].rng.seed # None
        /\ games[0].rng.seed = games[g].rng.seed
        /\ games[g].rng.pos >= 2
        /\ \E x, y \in Recorded :
              x[1] = g /\ y[1] = g /\ Outcome(x).roll # Outcome(y).roll

\* C6: with a base seed, the replication with 0-based index k draws from a
\* generator seeded base_seed + k, and its history (also as stored in main's
\* summaries) is the history of a standalone run constructed with seed
\* base_seed + k and the same other options; so the first replication's
\* history is that of the standalone run seeded base_seed whatever
\* replications is.
C6_ReplicationSeeds ==
    args.seed # None =>
        \A k \in 0..(MaxReps - 1) :
            /\ Constructed(k + 1) => games[k + 1].rng.seed = <<args.seed[1] + k>>
            /\ (/\ games[0].pc = "returned"
                /\ games[0].rng.seed = <<args.seed[1] + k>>)
               => /\ games[k + 1].pc = "returned"
                     => games[k + 1].history = games[0].history
                  /\ k + 1 <= Len(summaries)
                     => /\ summaries[k + 1].rounds = games[0].history
                        /\ summaries[k + 1] = games[0].summary[1]

\* main has run two replications; a standalone run seeded base_seed + 1 has
\* the history of the second replication, which is not that of the first
C6_Witness ==
    /\ args.seed # None /\ args.replications = 2
    /\ Len(summaries) = 2
    /\ games[0].pc = "returned"
    /\ games[0].rng.seed = <<args.seed[1] + 1>>
    /\ games[0].rng.pos >= 2
    /\ summaries[2].rounds = games[0].history
    /\ summaries[1].rounds # games[0].history

\* the rounds a run plays from the given buffers on the draws of stream, in
\* order, from round r on, as long as the stream holds a full round of draws
RECURSIVE Replay(_, _, _, _)
Replay(buffers, release_rate, stream, r) ==
    LET n == Len(buffers)
    IN IF n = 0 \/ r * n > Len(stream) THEN <<>>
       ELSE LET res == PlayRoundOn(buffers, release_rate,
                                   SubSeq(stream, (r - 1) * n + 1, r * n), r)
            IN <<res.outcome>> \o Replay(res.buffers, release_rate, stream, r + 1)

\* C7: whatever the order and interleaving of the replications, a replication
\* starts with every buffer at initial_buffer; its buffers and its generator's
\* position are only what its own rounds made them; with a base seed its
\* history is the replay, on fresh buffers, of the stream of its own seed
\* base_seed + k; so the summaries collected at the end are those of the
\* replays, the same for every schedule.
C7_IndependentReplications ==
    /\ \A g \in GameIds :
          LET gm == games[g]
              fresh == [i \in 1..args.stages |-> args.initial_buffer]
          IN Constructed(g) =>
                /\ gm.history = <<>> => gm.buffers = fresh
                /\ gm.history # <<>> =>
                      gm.buffers =
                          [i \in 1..args.stages |->
                              gm.history[Len(gm.history)].stage_outcomes[i].buffer_after]
                /\ gm.rng.pos = args.stages * Len(gm.history)
                /\ g >= 1 /\ args.seed # None =>
                      /\ gm.rng.seed = <<args.seed[1] + g - 1>>
                      /\ gm.history =
                            SubSeq(Replay(fresh, args.release_rate,
                                          mt[args.seed[1] + g - 1], 1),
                                   1, Len(gm.history))
    /\ (pc = "done" /\ args.seed # None) =>
          /\ Len(summaries) = args.replications
          /\ \A k \in 1..Len(summaries) :
                /\ summaries[k] = games[k].summary[1]
                /\ summaries[k].rounds =
                      SubSeq(Replay([i \in 1..args.stages |-> args.initial_buffer],
                                    args.release_rate, mt[args.seed[1] + k - 1], 1),
                             1, args.rounds)

\* the second replication has returned, with buffers no longer as
\* constructed, while the first, constructed after that, has played one of
\* its two rounds: an order main's loop does not take
C7_Witness ==
    /\ pc = "free" /\ args.seed # None /\ args.replications = 2
    /\ args.rounds = 2 /\ args.initial_buffer > 0
    /\ games[2].pc = "returned"
    /\ games[2].buffers # [i \in 1..args.stages |-> args.initial_buffer]
    /\ games[1].pc = "simulating"
    /\ Len(games[1].history) = 1
    /\ games[1].history[1] # games[2].history[1]

\* C11: the summary simulate returns for R >= 1 rounds has total_throughput
\* equal to the sum of the history's throughputs, and stage_starved_ratio and
\* stage_blocked_ratio with one entry per stage, each the number of rounds
\* in which the stage's flag is set over R, hence within [0, 1].
C11_SummaryTotals ==
    \A g \in GameIds :
        games[g].pc = "returned" =>
            LET sm == games[g].summary[1]
                h == sm.rounds
                R == games[g].rounds
                starved(s) == Cardinality({x \in Recorded :
                                  x[1] = g /\ x[3] = s /\ Outcome(x).starved})
                blocked(s) == Cardinality({x \in Recorded :
                                  x[1] = g /\ x[3] = s /\ Outcome(x).blocked})
            IN /\ R >= 1 /\ h = games[g].history /\ Len(h) = R
               /\ sm.total_throughput = SumSeq([r \in 1..R |-> h[r].throughput])
               /\ Len(sm.stage_starved_ratio) = games[g].stages
               /\ Len(sm.stage_blocked_ratio) = games[g].stages
               /\ \A s \in 1..games[g].stages :
                     LET sr == sm.stage_starved_ratio[s]
                         br == sm.stage_blocked_ratio[s]
                     IN /\ sr[2] > 0 /\ sr[1] * R = starved(s) * sr[2]
                        /\ br[2] > 0 /\ br[1] * R = blocked(s) * br[2]
                        /\ 0 <= sr[1] /\ sr[1] <= sr[2]
                        /\ 0 <= br[1] /\ br[1] <= br[2]

\* a returned run of three rounds with output, in which a stage was starved
\* in some rounds but not all, and blocked in another number of rounds
C11_Witness ==
    \E g \in GameIds :
        /\ games[g].pc = "returned" /\ games[g].rounds = 3
        /\ games[g].summary[1].total_throughput > 0
        /\ \E s \in 1..games[g].stages :
              LET sr == games[g].summary[1].stage_starved_ratio[s]
                  br == games[g].summary[1].stage_blocked_ratio[s]
              IN sr[2] = 3 /\ sr # br /\ br[1] > 0

\* C12: with release_rate = 0 and initial_buffer = 0 every recorded stage has
\* available = processed = buffer_after = 0, is starved and not blocked, and
\* every round has throughput 0 and wip 0, whatever the rolls.
C12_EmptyLine ==
    (args.release_rate = 0 /\ args.initial_buffer = 0) =>
        /\ \A x \in Recorded :
              LET o == Outcome(x)
              IN /\ o.available = 0 /\ o.processed = 0 /\ o.buffer_after = 0
                 /\ o.starved /\ ~o.blocked
        /\ \A y \in RecordedRounds :
              /\ games[y[1]].history[y[2]].throughput = 0
              /\ games[y[1]].history[y[2]].wip = 0

\* two rounds of an empty two-stage line have been played, with different
\* rolls at the two stages
C12_Witness ==
    /\ args.release_rate = 0 /\ args.initial_buffer = 0
    /\ \E g \in GameIds :
          /\ games[g].stages = 2 /\ Len(games[g].history) = 2
          /\ games[g].history[2].stage_outcomes[1].roll
                # games[g].history[2].stage_outcomes[2].roll

\* the buffers cannot be emptied by the rolls of the whole run
Saturated == args.initial_buffer > args.rounds * args.die_sides

\* C13: when initial_buffer > rounds * die_sides, every recorded stage
\* processes exactly its roll, is not starved and is blocked.
C13_SaturatedFlags ==
    Saturated =>
        \A x \in Recorded :
            LET o == Outcome(x)
            IN o.processed = o.roll /\ ~o.starved /\ o.blocked

\* a saturated single-stage run without release has rolled the maximum in
\* each of its two rounds and is left with one unit
C13_Witness ==
    /\ Saturated /\ args.rounds = 2 /\ args.release_rate = 0
    /\ \E g \in GameIds :
          /\ Len(games[g].history) = 2
          /\ games[g].buffers = <<1>>
          /\ games[g].history[2].stage_outcomes[1].roll = args.die_sides

\* C14 (as claimed): in a saturated line fed at least the largest roll per
\* round, every stage's buffer after a round is at least its buffer before.
C14_BuffersOnlyGrow ==
    (Saturated /\ args.release_rate >= args.die_sides) =>
        \A x \in Recorded : Outcome(x).buffer_after >= BufferBefore(x)

\* C14 (amended): in such a line stage 0's buffer changes by release_rate
\* minus its roll and so never shrinks, a later stage's buffer changes by the
\* roll of the stage before it minus its own roll, and a round's wip is at
\* least the wip before the round.
C14_SaturatedBuffers ==
    (Saturated /\ args.release_rate >= args.die_sides) =>
        /\ \A x \in Recorded :
              LET o == Outcome(x)
              IN IF x[3] = 1
                 THEN /\ o.buffer_after = BufferBefore(x) + args.release_rate - o.roll
                      /\ o.buffer_after >= BufferBefore(x)
                 ELSE o.buffer_after =
                          BufferBefore(x) + Outcome(<<x[1], x[2], x[3] - 1>>).roll
                                          - o.roll
        /\ \A y \in RecordedRounds :
              games[y[1]].history[y[2]].wip >=
                  (IF y[2] = 1 THEN args.stages * args.initial_buffer
                   ELSE games[y[1]].history[y[2] - 1].wip)

\* in such a line the second stage rolled more than the first and its buffer
\* shrank, while the first stage's buffer and the wip grew
C14_Witness ==
    /\ Saturated /\ args.release_rate >= args.die_sides
    /\ \E x \in Recorded :
          /\ x[3] = 2
          /\ Outcome(x).buffer_after < BufferBefore(x)
          /\ Outcome(<<x[1], x[2], 1>>).buffer_after > BufferBefore(<<x[1], x[2], 1>>)
          /\ games[x[1]].history[x[2]].wip > args.stages * args.initial_buffer

\* C15: a history holds RoundOutcomes with round_index 1, 2, ... in order,
\* each with one StageOutcome per stage with stage fields 0..stages-1 in
\* order, each round after the first starting from the buffers the round
\* before left; simulate(R) returns exactly R of them.
C15_HistoryShape ==
    \A g \in GameIds :
        LET h == games[g].history
        IN /\ \A r \in 1..Len(h) :
                 /\ h[r].round_index = r
                 /\ Len(h[r].stage_outcomes) = games[g].stages
                 /\ \A i \in 1..Len(h[r].stage_outcomes) :
                       /\ h[r].stage_outcomes[i].stage = i - 1
                       /\ r >= 2 =>
                             h[r].stage_outcomes[i].available =
                                 h[r - 1].stage_outcomes[i].buffer_after +
                                 (IF i = 1 THEN games[g].release_rate
                                  ELSE h[r].stage_outcomes[i - 1].processed)
           /\ Len(h) <= games[g].rounds
           /\ games[g].pc = "returned" =>
                 /\ games[g].rounds = args.rounds /\ args.rounds >= 1
                 /\ Len(h) = args.rounds
                 /\ games[g].summary[1].rounds = h

\* simulate(2) has returned on a two-stage line
C15_Witness ==
    \E g \in GameIds :
        /\ games[g].pc = "returned" /\ games[g].stages = 2
        /\ Len(games[g].history) = 2
        /\ games[g].history[2].stage_outcomes[2].stage = 1

\* one draw per stage and round, in stage order, from the run's own generator
C16_Draws ==
    \A g \in GameIds :
        Constructed(g) =>
            LET gm == games[g]
            IN /\ gm.rng.pos = gm.stages * Len(gm.history)
               /\ gm.pc = "returned" => gm.rng.pos = args.rounds * args.stages
               /\ gm.rng.seed # None => Len(mt[gm.rng.seed[1]]) = gm.rng.pos
               /\ \A x \in Recorded :
                     x[1] = g =>
                        /\ Outcome(x).roll \in 1..gm.die_sides
                        /\ gm.rng.seed # None =>
                              LET n == (x[2] - 1) * gm.stages + x[3]
                              IN /\ n <= Len(mt[gm.rng.seed[1]])
                                 /\ Outcome(x).roll = mt[gm.rng.seed[1]][n]

\* the steps main has left: per replication the constructor call, the entry
\* of simulate, its rounds and the append, and _print_summary at the end
StepsLeft ==
    IF pc # "run" THEN 0
    ELSE LET n == IF args.rounds < 0 THEN 0 ELSE args.rounds
             cur == IF rep < args.replications THEN games[rep + 1] ELSE NoGame
             taken == IF cur.pc = "constructed" THEN 1
                      ELSE IF cur.pc = "simulating" THEN 2 + Len(cur.history)
                      ELSE 0
         IN 1 + (args.replications - rep) * (n + 3) - taken

\* main's next step, read off the guards of its steps: the summary once the
\* loop is over, else the constructor call, the entry of simulate, a round
\* or the return of the replication in progress
CanStep ==
    \/ rep >= args.replications
    \/ /\ rep < args.replications
       /\ \/ games[rep + 1].pc \in {"none", "constructed"}
          \/ /\ games[rep + 1].pc = "simulating"
             /\ Len(games[rep + 1].history) <= games[rep + 1].rounds

\* C16: every round takes exactly one draw per stage from the run's random
\* source, in stage order, also for a stage with nothing available, each
\* draw within [1, die_sides]; a run of R rounds has taken R * stages draws
\* when it returns; and main comes to an end: while it runs a step is
\* possible, and every step leaves fewer steps to take.
C16_DrawsAndTermination ==
    /\ []C16_Draws
    /\ [](pc = "run" => (StepsLeft > 0 /\ CanStep))
    /\ [][StepsLeft' < StepsLeft]_vars

\* a seeded run of two rounds has returned after a draw for a stage that had
\* nothing available
C16_Witness ==
    \E g \in GameIds :
        /\ games[g].pc = "returned" /\ games[g].rng.seed # None
        /\ games[g].rounds = 2 /\ games[g].rng.pos = 2 * games[g].stages
        /\ \E x \in Recorded :
              x[1] = g /\ Outcome(x).available = 0 /\ Outcome(x).roll = games[g].die_sides

\* the throughput of rounds 1..n of game g
Cumulative(g, n) == SumSeq([r \in 1..n |-> games[g].history[r].throughput])

\* the wip before round r of game g
WipBefore(g, r) ==
    IF r = 1 THEN games[g].stages * args.initial_buffer
    ELSE games[g].history[r - 1].wip

\* C18: after any number n >= 0 of rounds of a run the sum of the stage
\* buffers plus the throughput of rounds 1..n is stages * initial_buffer +
\* n * release_rate, and each round's wip is the wip before it plus
\* release_rate minus the round's throughput.
C18_Conservation ==
    \A g \in GameIds :
        Constructed(g) =>
            LET gm == games[g]
                n == Len(gm.history)
            IN /\ SumSeq(gm.buffers) + Cumulative(g, n)
                  = gm.stages * args.initial_buffer + n * gm.release_rate
               /\ \A r \in 1..n :
                     /\ gm.history[r].wip + Cumulative(g, r)
                        = gm.stages * args.initial_buffer + r * gm.release_rate
                     /\ gm.history[r].wip
                        = WipBefore(g, r) + gm.release_rate - gm.history[r].throughput

\* two rounds of a two-stage line with release: material in the buffers and
\* material that has left in both rounds
C18_Witness ==
    \E g \in GameIds :
        /\ Constructed(g) /\ games[g].stages = 2 /\ games[g].release_rate > 0
        /\ Len(games[g].history) = 2
        /\ SumSeq(games[g].buffers) > 0
        /\ games[g].history[2].throughput > 0
        /\ Cumulative(g, 2) > games[g].history[2].throughput

\* C19: no stage is both starved and blocked in a round, a starved stage
\* ends the round with an empty buffer, a stage is neither exactly when
\* available = roll; so per stage the starved rounds plus the blocked rounds
\* are at most the rounds, and starved_ratio + blocked_ratio <= 1.
C19_StarvedBlockedExclusive ==
    /\ \A x \in Recorded :
          LET o == Outcome(x)
          IN /\ ~(o.starved /\ o.blocked)
             /\ o.starved => o.buffer_after = 0
             /\ (~o.starved /\ ~o.blocked) <=> o.available = o.roll
    /\ \A g \in GameIds :
          games[g].pc = "returned" =>
              \A s \in 1..games[g].stages :
                  LET sr == games[g].summary[1].stage_starved_ratio[s]
                      br == games[g].summary[1].stage_blocked_ratio[s]
                      sum == RatAdd(sr, br)
                  IN /\ Count(games[g].history, s - 1, "starved")
                        + Count(games[g].history, s - 1, "blocked")
                        <= games[g].rounds
                     /\ sr[1] * br[2] + br[1] * sr[2] <= sr[2] * br[2]
                     /\ sum[1] <= sum[2]

\* a returned run of three rounds in which one stage was starved in a round,
\* blocked in another and neither in the third
C19_Witness ==
    \E g \in GameIds :
        /\ games[g].pc = "returned" /\ games[g].rounds = 3
        /\ \E s \in 1..games[g].stages :
              /\ Count(games[g].history, s - 1, "starved") = 1
              /\ Count(games[g].history, s - 1, "blocked") = 1
              /\ \E x \in Recorded :
                    /\ x[1] = g /\ x[3] = s
                    /\ ~Outcome(x).starved /\ ~Outcome(x).blocked
                    /\ Outcome(x).available = Outcome(x).roll

\* the rounds within which a line of game g's length without release is empty
DrainRounds(g) ==
    (args.initial_buffer * games[g].stages * (games[g].stages + 1)) \div 2

\* C20: with release_rate = 0, whatever the rolls, wip never goes up from
\* one round to the next, the throughput so far never exceeds
\* stages * initial_buffer, wip is 0 from round
\* initial_buffer * stages * (stages + 1) / 2 on, and once wip is 0 every
\* later round has throughput 0 and wip 0.
C20_Drain ==
    \A g \in GameIds :
        (Constructed(g) /\ games[g].release_rate = 0) =>
            LET gm == games[g]
                n == Len(gm.history)
            IN /\ Cumulative(g, n) <= gm.stages * args.initial_buffer
               /\ DrainRounds(g) = 0 => SumSeq(gm.buffers) = 0
               /\ \A r \in 1..n :
                     /\ gm.history[r].wip <= WipBefore(g, r)
                     /\ r >= DrainRounds(g) => gm.history[r].wip = 0
                     /\ WipBefore(g, r) = 0 =>
                           /\ gm.history[r].wip = 0
                           /\ gm.history[r].throughput = 0

\* a line that emptied no sooner than the bound says, in round 2, and ran
\* two more rounds after that
C20_Witness ==
    /\ args.release_rate = 0
    /\ \E g \in GameIds :
          /\ games[g].pc = "returned"
          /\ DrainRounds(g) = 2
          /\ Len(games[g].history) >= 4
          /\ games[g].history[1].wip > 0
          /\ games[g].history[2].wip = 0
          /\ games[g].history[2].throughput > 0
          /\ games[g].history[4].throughput = 0

RECURSIVE Concat(_)
Concat(lists) == IF lists = <<>> THEN <<>> ELSE lists[1] \o Concat(Tail(lists))

\* C17: list_all_repos asks for pages 1, 2, 3, ... in this order; it asks
\* for page p + 1 only if pages 1..p each came with exactly 100
\* repositories; it returns right after the first page that is empty or has
\* fewer than 100, with the repositories of all the pages it received in
\* page order; and if a request fails the process exits with status 1 and
\* nothing is returned.
C17_Pagination ==
    LET k == Len(lister.requested)
        m == Len(lister.fetched)
    IN /\ lister.requested = [p \in 1..k |-> p]
       /\ \A p \in 2..k : \A q \in 1..(p - 1) : Len(lister.fetched[q]) = 100
       /\ lister.pc = "loop" =>
             /\ m = k /\ lister.page = k + 1
             /\ \A q \in 1..m : Len(lister.fetched[q]) = 100
             /\ lister.all_repos = Concat(lister.fetched)
             /\ lister.result = None /\ lister.status = None
       /\ lister.pc = "returned" =>
             /\ k >= 1 /\ m = k
             /\ Len(lister.fetched[k]) < 100
             /\ lister.result = Some(Concat(lister.fetched))
             /\ lister.status = None
       /\ lister.pc = "exited" =>
             /\ k >= 1 /\ m = k - 1
             /\ lister.status = Some(1)
             /\ lister.result = None
       /\ (lister.status # None \/ m < k) => lister.pc = "exited"

\* two full pages and a third, short one: all 205 repositories returned in
\* the order they came
C17_Witness ==
    /\ lister.pc = "returned"
    /\ lister.requested = <<1, 2, 3>>
    /\ Len(lister.fetched[3]) = 5
    /\ Len(lister.result[1]) = 205
    /\ lister.result[1][1] = <<1, 1>>
    /\ lister.result[1][101] = <<2, 1>>
    /\ lister.result[1][205] = <<3, 5>>

====
